---------------------------- MODULE Spec2Model ----------------------------
(***************************************************************************)
(* A model of agmd (zhzhang/am): the `init`, `add` and `sync` commands,    *)
(* the config store, the document composer and the module materializer.    *)
(*                                                                         *)
(* Conventions.                                                            *)
(*  - A Python string whose characters matter (a GitHub slug, a remote     *)
(*    entry path) is a sequence of one-character strings.                  *)
(*  - A file-system path is a sequence of segment strings below "/".       *)
(*    A raw path (user input, config key) is a sequence of segments whose  *)
(*    first element is "/" when the path is absolute.                      *)
(*  - A text (file content) is a sequence of tokens; " " and "\n" are the  *)
(*    whitespace tokens, every other token is opaque non-blank text.       *)
(*  - The file system has no symbolic links: Path.resolve() only removes   *)
(*    "." and ".." segments.                                               *)
(***************************************************************************)
EXTENDS Integers, Sequences, FiniteSets, TLC

VARIABLES
    config,     \* agmd.yml on disk: the YAML document (a list of records)
    dirs,       \* the directories that exist (absolute paths)
    files,      \* the regular files that exist: path -> content
    pc,         \* where the running command stands ("idle" between commands)
    cmd,        \* the running (or last) command and its arguments
    mappings,   \* the command's in-memory MappingSet (load_mappings' result)
    idx,        \* index of the path key the command's current loop is at
    refreshed,  \* refreshed_paths: the AGENTS.md files written so far
    rebuilt,    \* rebuilt_module_paths: <<modules_root, file count>> pairs
    dl,         \* the state of the module download in progress
    netCalls,   \* the URLs requested by the running (or last) command
    exitCode,   \* the last command's exit code (-1 while none has ended)
    err,        \* the error that ended the last command ("none" if none)
    printed,    \* the lines the last command printed
    opCount,    \* commands and edits started so far
    hist,       \* history: what the properties compare against
    remote,     \* which content the remote serves (the name of a world)
    fin,        \* input of the pure function under study
    fout        \* its result

fsVars   == <<dirs, files>>
runVars  == <<pc, cmd, mappings, idx, refreshed, rebuilt, dl, netCalls>>
endVars  == <<exitCode, err, printed>>
pureVars == <<fin, fout>>
vars     == <<config, fsVars, runVars, endVars, opCount, hist, pureVars, remote>>

----------------------------------------------------------------------------
(* Bounds *)

\* commands and hand edits in one behaviour
MaxOps == 4
\* segments in a raw path given to the path normalizer
MaxRawLen == 3
\* entries of one path in the composer's and the config store's inputs
MaxEntries == 2
\* characters in a slug given to the directory-name function
MaxSlugLen == 5

----------------------------------------------------------------------------
(* Sequences and strings *)

IsPrefix(p, s) == Len(p) <= Len(s) /\ SubSeq(s, 1, Len(p)) = p

Range(s) == {s[i] : i \in 1..Len(s)}

Last(s) == s[Len(s)]

Front(s) == SubSeq(s, 1, Len(s) - 1)

RECURSIVE Flatten(_)
Flatten(ss) == IF ss = <<>> THEN <<>> ELSE Head(ss) \o Flatten(Tail(ss))

\* the TLA+ string spelled by a sequence of characters
RECURSIVE Str(_)
Str(cs) == IF cs = <<>> THEN "" ELSE Head(cs) \o Str(Tail(cs))

\* str.lstrip / str.rstrip / str.strip over a set of characters
RECURSIVE LStrip(_, _)
LStrip(cs, drop) ==
    IF cs # <<>> /\ Head(cs) \in drop THEN LStrip(Tail(cs), drop) ELSE cs

RECURSIVE RStrip(_, _)
RStrip(cs, drop) ==
    IF cs # <<>> /\ Last(cs) \in drop THEN RStrip(Front(cs), drop) ELSE cs

StripSet(cs, drop) == LStrip(RStrip(cs, drop), drop)

Whitespace == {" ", "\n"}

\* str.strip()
Strip(cs) == StripSet(cs, Whitespace)

\* str.split(sep): the pieces between the separators, empty pieces included
RECURSIVE SplitAcc(_, _, _, _)
SplitAcc(cs, sep, cur, acc) ==
    IF cs = <<>> THEN Append(acc, cur)
    ELSE IF Head(cs) = sep THEN SplitAcc(Tail(cs), sep, <<>>, Append(acc, cur))
    ELSE SplitAcc(Tail(cs), sep, Append(cur, Head(cs)), acc)

Split(cs, sep) == SplitAcc(cs, sep, <<>>, <<>>)

NonEmpty(x) == x # <<>>

\* [part for part in cleaned.split("/") if part]
SlashParts(cs) == SelectSeq(Split(cs, "/"), NonEmpty)

----------------------------------------------------------------------------
(* Paths (pathlib) *)

\* Path.cwd() at the project root: <root>/.git exists
ProjectRoot == <<"home", "p">>

IsAbsolute(raw) == raw # <<>> /\ raw[1] = "/"

NotDot(s) == s # "."

\* Path(raw).parts below "/": pathlib drops "." segments and keeps ".."
Parts(raw) == SelectSeq(IF IsAbsolute(raw) THEN Tail(raw) ELSE raw, NotDot)

\* base / raw: an absolute right operand replaces the left one
Under(base, raw) == IF IsAbsolute(raw) THEN Parts(raw) ELSE base \o Parts(raw)

\* Path.resolve() of an absolute path: ".." steps up and stops at "/"
RECURSIVE ResolveAcc(_, _)
ResolveAcc(acc, rest) ==
    IF rest = <<>> THEN acc
    ELSE IF Head(rest) = "."
         THEN ResolveAcc(acc, Tail(rest))
    ELSE IF Head(rest) = ".."
         THEN ResolveAcc(IF acc = <<>> THEN acc ELSE Front(acc), Tail(rest))
    ELSE ResolveAcc(Append(acc, Head(rest)), Tail(rest))

Resolve(p) == ResolveAcc(<<>>, p)

\* PurePath.relative_to succeeds when `base` is a lexical prefix of `p`
IsRelativeTo(p, base) == IsPrefix(base, p)

RelativeTo(p, base) == SubSeq(p, Len(base) + 1, Len(p))

\* "." if str(relative_path) == "." else relative_path.as_posix()
KeyOf(rel) == IF rel = <<>> THEN <<".">> ELSE rel

\* the directory a path denotes, whatever its spelling
Denotes(p) == Resolve(p)

InsideRoot(p) == IsPrefix(ProjectRoot, Denotes(p))

\* add_command._normalize_local_path
NormalizeLocalPath(raw) ==
    LET np == IF IsAbsolute(raw) THEN Parts(raw)
              ELSE Resolve(Under(ProjectRoot, raw))
    IN  IF IsRelativeTo(np, Resolve(ProjectRoot))
        THEN [err |-> "none", key |-> KeyOf(RelativeTo(np, Resolve(ProjectRoot)))]
        ELSE [err |-> "OutOfBounds", key |-> <<>>]

\* init_command._parse_mapping_entries, the path half of one PATH=SLUG entry
ParseMappingPath(raw) ==
    LET np == IF IsAbsolute(raw) THEN Parts(raw)
              ELSE Resolve(Under(ProjectRoot, raw))
    IN  IF IsRelativeTo(np, Resolve(ProjectRoot))
        THEN [err |-> "none", key |-> KeyOf(RelativeTo(np, Resolve(ProjectRoot)))]
        ELSE [err |-> "OutOfBounds", key |-> <<>>]

----------------------------------------------------------------------------
(* GitHub slugs *)

\* sync_helpers._github_agents_url: the raw-content URL of a slug's AGENTS.md
GithubAgentsUrl(slug) ==
    LET cleaned == RStrip(Strip(slug), {"/"})
        parts   == SlashParts(cleaned)
        rel     == SubSeq(parts, 3, Len(parts))
    IN  IF Len(parts) < 2
        THEN [err |-> "InvalidSlug", url |-> [host |-> "", owner |-> "", repo |-> "", path |-> ""]]
        ELSE [err |-> "none",
              url |-> [host  |-> "raw",
                       owner |-> Str(parts[1]),
                       repo  |-> Str(parts[2]),
                       path  |-> Str(Flatten([i \in 1..Len(rel) |-> rel[i] \o <<"/">>]))
                                 \o "AGENTS.md"]]

\* module_helpers._parse_github_path (add_command has the same function)
ParseGithubPath(slug) ==
    LET cleaned == StripSet(Strip(slug), {"/"})
        parts   == SlashParts(cleaned)
    IN  IF Len(parts) < 2
        THEN [err |-> "InvalidSlug", owner |-> "", repo |-> "", rest |-> <<>>]
        ELSE [err |-> "none", owner |-> Str(parts[1]), repo |-> Str(parts[2]),
              rest |-> SubSeq(parts, 3, Len(parts))]

\* "/".join(parts)
RECURSIVE JoinSlash(_)
JoinSlash(parts) ==
    IF parts = <<>> THEN <<>>
    ELSE IF Len(parts) = 1 THEN Head(parts)
    ELSE Head(parts) \o <<"/">> \o JoinSlash(Tail(parts))

\* the characters [A-Za-z0-9._-] that occur in the model's strings
SafeChars ==
    {"a", "b", "c", "d", "e", "f", "g", "h", "i", "k", "m", "n", "o", "r", "s",
     "t", "w", "x", "y", "z",
     "A", "E", "G", "M", "N", "S", "T", "L", "1", "2", ".", "_", "-"}

\* a substitution that drops the other characters
RECURSIVE SubUnsafe_Drops(_, _)
SubUnsafe_Drops(cs, inRun) ==
    IF cs = <<>> THEN <<>>
    ELSE IF Head(cs) \in SafeChars THEN <<Head(cs)>> \o SubUnsafe_Drops(Tail(cs), FALSE)
    ELSE SubUnsafe_Drops(Tail(cs), TRUE)

\* re.sub(r"[^A-Za-z0-9._-]+", "_", s): each run of other characters becomes "_"
RECURSIVE SubUnsafe(_, _)
SubUnsafe(cs, inRun) ==
    IF cs = <<>> THEN <<>>
    ELSE IF Head(cs) \in SafeChars THEN <<Head(cs)>> \o SubUnsafe(Tail(cs), FALSE)
    ELSE IF inRun THEN SubUnsafe(Tail(cs), TRUE)
    ELSE <<"_">> \o SubUnsafe(Tail(cs), TRUE)

\* module_helpers._module_slug_directory_name
ModuleSlugDirectoryName(slug) ==
    LET cleaned == StripSet(Strip(slug), {"/"})
    IN  IF cleaned = <<>> THEN [err |-> "InvalidSlug", name |-> ""]
        ELSE [err |-> "none", name |-> Str(SubUnsafe(cleaned, FALSE))]

\* module_helpers._github_contents_api_url
GithubContentsApiUrl(owner, repo, pathInRepo) ==
    [host |-> "api", owner |-> owner, repo |-> repo, path |-> Str(pathInRepo)]

----------------------------------------------------------------------------
(* The remote collaborator: raw content, directory listings, downloads *)

Url(h, o, r, p) == [host |-> h, owner |-> o, repo |-> r, path |-> p]

FileEntry(o, r, p) ==
    [type |-> "file", path |-> p, url |-> Url("dl", o, r, Str(p))]

DirEntry(p) == [type |-> "dir", path |-> p, url |-> Url("", "", "", "")]

OtherEntry(p) == [type |-> "submodule", path |-> p, url |-> Url("", "", "", "")]

\* what raw.githubusercontent.com serves: URL -> text.  a/b and c/d carry
\* rules, a/e an AGENTS.md of whitespace only; any other URL is an HTTP error
RawWorld ==
    (Url("raw", "a", "b", "AGENTS.md") :> <<"\n", "Rule 1", "\n">>) @@
    (Url("raw", "c", "d", "AGENTS.md") :> <<"Rule 2">>) @@
    (Url("raw", "a", "e", "AGENTS.md") :> <<" ", "\n">>) @@
    (Url("raw", "t", "r", "AGENTS.md") :> <<"Rule 3">>) @@
    (Url("raw", "t", "r", "d/AGENTS.md") :> <<"Rule 4">>) @@
    (Url("raw", "h", "x", "AGENTS.md") :> <<"Rule 5">>) @@
    (Url("raw", "h", "x", "docs/AGENTS.md") :> <<"Rule 6">>)

\* the listings no world changes.  c/d holds h, a/e lists no file at all.
\* h/x answers with entry paths a tree would not have: one that climbs with
\* "..", an absolute one, and under the subpath docs one that shares "docs"
\* only as a string prefix, one elsewhere, one that climbs out of docs
SteadyListings ==
    (Url("api", "c", "d", "") :> <<FileEntry("c", "d", <<"h">>)>>) @@
    (Url("api", "a", "e", "") :> <<OtherEntry(<<"x">>)>>) @@
    (Url("api", "h", "x", "") :>
        <<FileEntry("h", "x", <<"o", "k">>),
          FileEntry("h", "x", <<".", ".", "/", ".", ".", "/", ".", ".", "/", "x">>),
          FileEntry("h", "x", <<"/", "e">>)>>) @@
    (Url("api", "h", "x", "docs") :>
        <<FileEntry("h", "x", <<"d", "o", "c", "s", "/", "i", "n">>),
          FileEntry("h", "x", <<"d", "o", "c", "s", "2", "/", "x">>),
          FileEntry("h", "x", <<"o", "t", "h", "e", "r", "/", "y">>),
          FileEntry("h", "x", <<"d", "o", "c", "s", "/", ".", ".", "/", ".", ".", "/", "z">>)>>)

\* the tree of a/b: f and d/g
ListingsOfAb ==
    (Url("api", "a", "b", "") :> <<FileEntry("a", "b", <<"f">>), DirEntry(<<"d">>)>>) @@
    (Url("api", "a", "b", "d") :> <<FileEntry("a", "b", <<"d", "/", "g">>)>>)

\* the tree of t/r: f, d/g, d/k/m and the empty directory e
ListingsOfTr ==
    (Url("api", "t", "r", "") :>
        <<FileEntry("t", "r", <<"f">>), DirEntry(<<"d">>), DirEntry(<<"e">>)>>) @@
    (Url("api", "t", "r", "d") :>
        <<FileEntry("t", "r", <<"d", "/", "g">>), DirEntry(<<"d", "/", "k">>)>>) @@
    (Url("api", "t", "r", "d/k") :> <<FileEntry("t", "r", <<"d", "/", "k", "/", "m">>)>>) @@
    (Url("api", "t", "r", "e") :> <<>>)

\* a sequence last to first
Reversed(sq) == [i \in 1..Len(sq) |-> sq[Len(sq) + 1 - i]]

\* what the contents API lists in each world: URL -> entries; any other URL is
\* an HTTP error.  "later" has lost the directory d of a/b; "swapped" lists
\* the same trees with the siblings of every directory in the opposite order
ApiWorlds ==
    [base    |-> SteadyListings @@ ListingsOfAb @@ ListingsOfTr,
     later   |-> SteadyListings @@ ListingsOfTr
                 @@ (Url("api", "a", "b", "") :> <<FileEntry("a", "b", <<"f">>)>>),
     swapped |-> SteadyListings
                 @@ [u \in DOMAIN ListingsOfAb |-> Reversed(ListingsOfAb[u])]
                 @@ [u \in DOMAIN ListingsOfTr |-> Reversed(ListingsOfTr[u])]]

\* what the contents API lists now
ApiWorld == ApiWorlds[remote]

\* urlopen(...).read() for AGENTS.md: HTTPError/URLError when the URL is unknown
FetchText(url) ==
    IF url \in DOMAIN RawWorld THEN [ok |-> TRUE, text |-> RawWorld[url]]
    ELSE [ok |-> FALSE, text |-> <<>>]

\* module_helpers._fetch_json
FetchJson(url) ==
    IF url \in DOMAIN ApiWorld THEN [ok |-> TRUE, entries |-> ApiWorld[url]]
    ELSE [ok |-> FALSE, entries |-> <<>>]

\* module_helpers._download_bytes: the bytes name the file they come from
DownloadBytes(url) == <<url.owner, url.repo, url.path>>

----------------------------------------------------------------------------
(* Document composer *)

\* sync_helpers.ROOT_AGENTS_PREAMBLE: four lines, each ended by a newline
RootAgentsPreamble ==
    <<"This project's AGENTS.md files are managed by agmd, which may pull in AGENTS.md files from other sources.", "\n",
      "These external AGENTS.md files will be delimited by:", "\n",
      "# agmd start <module_name>.", "\n",
      "Any files referenced by these modules will be located relative to the AGENTS.md file at .agmd/<module_name>.", "\n">>

\* a header with no blank line after it
RemoteSection_NoBlankLine(slug, content) ==
    <<"# agmd start ">> \o slug \o <<".", "\n">> \o content

\* f"# agmd start {github_path}.\n\n{remote_content}"
RemoteSection(slug, content) ==
    <<"# agmd start ">> \o slug \o <<".", "\n", "\n">> \o content

\* f"# agmd local\n\n{local_content}"
LocalSection(content) == <<"# agmd local", "\n", "\n">> \o content

\* the sections joined last to first
RECURSIVE JoinSections_Reversed(_)
JoinSections_Reversed(secs) ==
    IF secs = <<>> THEN <<>>
    ELSE IF Len(secs) = 1 THEN Head(secs)
    ELSE JoinSections_Reversed(Tail(secs)) \o <<"\n", "\n">> \o Head(secs)

\* "\n\n".join(sections)
RECURSIVE JoinSections(_)
JoinSections(secs) ==
    IF secs = <<>> THEN <<>>
    ELSE IF Len(secs) = 1 THEN Head(secs)
    ELSE Head(secs) \o <<"\n", "\n">> \o JoinSections(Tail(secs))

\* the loop over mds of compose_agents_document: one fetch per entry, in order;
\* the first slug or fetch error ends it
RECURSIVE ComposeRemote(_, _, _, _)
ComposeRemote(mds, secs, names, calls) ==
    IF mds = <<>> THEN [err |-> "none", secs |-> secs, names |-> names, calls |-> calls]
    ELSE LET u == GithubAgentsUrl(Head(mds).name)
         IN  IF u.err # "none"
             THEN [err |-> u.err, secs |-> secs, names |-> names, calls |-> calls]
             ELSE LET r == FetchText(u.url)
                      c == Strip(r.text)
                  IN  IF ~r.ok
                      THEN [err |-> "FetchError", secs |-> secs, names |-> names,
                            calls |-> Append(calls, u.url)]
                      ELSE ComposeRemote(
                               Tail(mds),
                               IF c # <<>>
                               THEN Append(secs, RemoteSection(Head(mds).name, c))
                               ELSE secs,
                               IF c # <<>> THEN Append(names, Head(mds).name) ELSE names,
                               Append(calls, u.url))

\* a composer that takes the generated AGENTS.md for the local notes
ComposeAgentsDocument_ReadsOutput(mds, localPath, fl) ==
    LET r      == ComposeRemote(mds, <<>>, <<>>, <<>>)
        agents == Front(localPath) \o <<"AGENTS.md">>
        local  == IF agents \in DOMAIN fl THEN Strip(fl[agents]) ELSE <<>>
        secs   == IF local # <<>> THEN Append(r.secs, LocalSection(local)) ELSE r.secs
    IN  [err |-> r.err,
         text |-> IF secs = <<>> THEN <<>> ELSE JoinSections(secs) \o <<"\n">>,
         names |-> r.names,
         calls |-> r.calls]

\* sync_helpers.compose_agents_document; `fl` is the file system's files.
\* names: the sources of the sections emitted, in document order
ComposeAgentsDocument(mds, localPath, fl) ==
    LET r     == ComposeRemote(mds, <<>>, <<>>, <<>>)
        local == IF localPath \in DOMAIN fl THEN Strip(fl[localPath]) ELSE <<>>
        secs  == IF local # <<>> THEN Append(r.secs, LocalSection(local)) ELSE r.secs
        names == IF local # <<>> THEN Append(r.names, <<"local">>) ELSE r.names
    IN  IF r.err # "none"
        THEN [err |-> r.err, text |-> <<>>, names |-> <<>>, calls |-> r.calls]
        ELSE [err |-> "none",
              text |-> IF secs = <<>> THEN <<>> ELSE JoinSections(secs) \o <<"\n">>,
              names |-> names,
              calls |-> r.calls]

----------------------------------------------------------------------------
(* Config store.  A MappingSet (a Python dict, insertion-ordered) is a       *)
(* sequence of [path, mds] pairs with distinct paths, mds a sequence of      *)
(* [name, module] with module a BOOLEAN.  The YAML document is a sequence    *)
(* of records whose `module` scalars are "true", "false" or "null" (absent). *)

DictKeys(m) == [i \in 1..Len(m) |-> m[i].path]

DictHas(m, k) == \E i \in 1..Len(m) : m[i].path = k

DictGet(m, k) == (CHOOSE i \in 1..Len(m) : m[i].path = k)

\* mappings[k] = v: a present key keeps its position
DictSet(m, k, v) ==
    IF DictHas(m, k)
    THEN [i \in 1..Len(m) |-> IF m[i].path = k THEN [path |-> k, mds |-> v] ELSE m[i]]
    ELSE Append(m, [path |-> k, mds |-> v])

\* sync_helpers._parse_name / _parse_module over one md record
ParseMd(md) ==
    IF Strip(md.name) = <<>> THEN [err |-> "InvalidConfig", md |-> [name |-> <<>>, module |-> FALSE]]
    ELSE IF md.module \notin {"true", "false", "null"}
         THEN [err |-> "InvalidConfig", md |-> [name |-> <<>>, module |-> FALSE]]
    ELSE [err |-> "none", md |-> [name |-> Strip(md.name), module |-> (md.module = "true")]]

RECURSIVE LoadRecords(_, _)
LoadRecords(doc, acc) ==
    IF doc = <<>> THEN [err |-> "none", mappings |-> acc]
    ELSE LET e      == Head(doc)
             parsed == [i \in 1..Len(e.mds) |-> ParseMd(e.mds[i])]
         IN  IF e.path = <<>> \/ \E i \in 1..Len(parsed) : parsed[i].err # "none"
             THEN [err |-> "InvalidConfig", mappings |-> <<>>]
             ELSE LoadRecords(Tail(doc),
                              DictSet(acc, e.path, [i \in 1..Len(parsed) |-> parsed[i].md]))

\* sync_helpers.load_mappings
LoadMappings(cfg) ==
    IF ~cfg.exists THEN [err |-> "MissingConfig", mappings |-> <<>>]
    ELSE LoadRecords(cfg.doc, <<>>)

\* a dump that loses the module flag
DumpMd_DropsFlag(md) == [name |-> md.name, module |-> "false"]

\* yaml.safe_dump of one {"name": ..., "module": ...}
DumpMd(md) == [name |-> md.name, module |-> IF md.module THEN "true" ELSE "false"]

\* sync_helpers.write_mappings: the document written to agmd.yml
WriteMappings(m) ==
    [exists |-> TRUE,
     doc    |-> [i \in 1..Len(m) |->
                    [path |-> m[i].path,
                     mds  |-> [j \in 1..Len(m[i].mds) |-> DumpMd(m[i].mds[j])]]]]


----------------------------------------------------------------------------
(* File system *)

Prefixes(p) == {SubSeq(p, 1, n) : n \in 0..Len(p)}

\* Path.mkdir(parents=True, exist_ok=True)
MkdirP(ds, p) == ds \cup Prefixes(p)

\* Path.write_text / Path.write_bytes
WriteFile(fl, p, content) ==
    [q \in DOMAIN fl \cup {p} |-> IF q = p THEN content ELSE fl[q]]

Exists(ds, fl, p) == p \in ds \/ p \in DOMAIN fl

\* shutil.rmtree(p) on a directory, Path.unlink() on a file
RemoveDirs(ds, p) == {d \in ds : ~IsPrefix(p, d)}

\* a removal that leaves the files in place
RemoveFiles_Keeps(fl, p) == fl

\* a removal that takes the files of every .agmd of the project
RemoveFiles_EveryModule(fl, p) == [q \in {f \in DOMAIN fl : ".agmd" \notin Range(f)} |-> fl[q]]

RemoveFiles(fl, p) == [q \in {f \in DOMAIN fl : ~IsPrefix(p, f)} |-> fl[q]]

\* Path(s) for a string s: its segments, "/" first when s is absolute
PathOfStr(cs) ==
    LET segs == [i \in 1..Len(SlashParts(cs)) |-> Str(SlashParts(cs)[i])]
    IN  IF cs # <<>> /\ Head(cs) = "/" THEN <<"/">> \o segs ELSE segs

----------------------------------------------------------------------------
(* The commands' inputs *)

Slug_ab    == <<"a", "/", "b">>
Slug_cd    == <<"c", "/", "d">>
Slug_ae    == <<"a", "/", "e">>
Slug_owner == <<"o", "w", "n", "e", "r">>
Slug_xy    == <<"x", "/", "y">>
Slug_tr    == <<"t", "/", "r">>
Slug_trd   == <<"t", "/", "r", "/", "d">>
Slug_hx    == <<"h", "/", "x">>
Slug_hxd   == <<"h", "/", "x", "/", "d", "o", "c", "s">>

AddArg(path, slug, module) == [path |-> path, slug |-> slug, module |-> module]

\* the `add` invocations of the model: --path, the slug, --module.  The last
\* three paths are a directory inside the root's .agmd, an absolute path with
\* a ".." segment, and a relative path that leaves the project
AddArgs ==
    {AddArg(<<".">>, Slug_ab, FALSE),
     AddArg(<<".">>, Slug_ab, TRUE),
     AddArg(<<".">>, Slug_cd, TRUE),
     AddArg(<<".">>, Slug_ae, TRUE),
     AddArg(<<".">>, Slug_owner, FALSE),
     AddArg(<<".">>, Slug_xy, FALSE),
     AddArg(<<"sub">>, Slug_cd, TRUE),
     AddArg(<<"sub">>, Slug_ab, FALSE),
     AddArg(<<".agmd", "a_b">>, Slug_cd, TRUE),
     AddArg(<<"/", "home", "p", "..", "etc">>, Slug_ab, FALSE),
     AddArg(<<"..", "etc">>, Slug_ab, FALSE)}

\* records a user may add to agmd.yml by hand
HandRecords ==
    {[path |-> <<"sub", "..">>, mds |-> <<[name |-> Slug_cd, module |-> "true"]>>],
     [path |-> <<"..", "etc">>, mds |-> <<>>],
     [path |-> <<"/", "etc">>, mds |-> <<[name |-> Slug_ab, module |-> "true"]>>]}

LocalNotes == <<"Local notes", "\n">>

NoUrl == Url("", "", "", "")

NoCmd == [kind |-> "none", path |-> <<>>, slug |-> <<>>, module |-> FALSE, key |-> <<>>]

NoDl ==
    [slugs |-> <<>>, active |-> FALSE, root |-> <<>>, dest |-> <<>>, owner |-> "",
     repo |-> "", prefix |-> <<>>, pending |-> <<>>, entries |-> <<>>,
     count |-> 0, total |-> 0, mark |-> 0, calls |-> 0]

NoErr == [kind |-> "none", stage |-> "none", at |-> 0]

\* no successful sync to compare with
NoGood ==
    [set |-> FALSE, dirs |-> {}, files |-> <<>>, config |-> [exists |-> FALSE, doc |-> <<>>],
     remote |-> ""]

Line(kind, path, n) == [kind |-> kind, path |-> path, n |-> n]

----------------------------------------------------------------------------
(* Initial state: a project right after `agmd init` (no -m): an empty       *)
(* agmd.yml, and the project's own AGENTS.md, if it had one, moved to       *)
(* AGENTS.local.md                                                          *)

\* every variable of the commands' state machine, with `fl` the files
\* present, `doc` the records of agmd.yml and `world` what the remote serves
InitWith(fl, doc, world) ==
    /\ config = [exists |-> TRUE, doc |-> doc]
    /\ remote = world
    /\ dirs = Prefixes(ProjectRoot) \cup UNION {Prefixes(Front(f)) : f \in DOMAIN fl}
    /\ files = fl
    /\ pc = "idle"
    /\ cmd = NoCmd
    /\ mappings = <<>>
    /\ idx = 0
    /\ refreshed = <<>>
    /\ rebuilt = <<>>
    /\ dl = NoDl
    /\ netCalls = <<>>
    /\ exitCode = -1
    /\ err = NoErr
    /\ printed = <<>>
    /\ opCount = 0
    /\ hist = [dirs0 |-> {}, files0 |-> <<>>, config0 |-> [exists |-> TRUE, doc |-> <<>>],
               afterSync |-> FALSE, removed |-> NoCmd, effects |-> <<>>, good |-> NoGood]

\* a project right after `agmd init`
MainInit(fl) == InitWith(fl, <<>>, "base")

NoFiles == <<>>

RootLocal == (ProjectRoot \o <<"AGENTS.local.md">>) :> LocalNotes

Init ==
    /\ \E fl \in {NoFiles, RootLocal} : MainInit(fl)
    /\ fin = <<>>
    /\ fout = <<>>

\* what a command remembers of the state it starts in
HistAtStart ==
    [dirs0 |-> dirs, files0 |-> files, config0 |-> config,
     afterSync |-> (cmd.kind = "sync" /\ exitCode = 0),
     removed |-> IF cmd.kind = "edit" THEN cmd ELSE NoCmd,
     effects |-> <<>>,
     good |-> IF cmd.kind = "sync" /\ exitCode = 0
              THEN [set |-> TRUE, dirs |-> dirs, files |-> files, config |-> config,
                    remote |-> remote]
              ELSE IF cmd.kind = "sync" /\ err.kind = "Interrupted" THEN hist.good
              ELSE IF cmd.kind = "swap" THEN hist.good
              ELSE NoGood]

Effect(act, k, path) == [act |-> act, k |-> k, path |-> path]

Log(effs) == hist' = [hist EXCEPT !.effects = hist.effects \o effs]

\* the command ends: `except ValueError: print(str(exc)); return 1`, or return 0
Ends(code, kind, stage, at, lines) ==
    /\ pc' = "idle"
    /\ exitCode' = code
    /\ err' = [kind |-> kind, stage |-> stage, at |-> at]
    /\ printed' = lines

\* an error that is reported and leaves the exit code at 0
Fails_ExitZero(kind, stage, at) == Ends(0, kind, stage, at, <<Line("Error", <<>>, 0)>>)

Fails(kind, stage, at) == Ends(1, kind, stage, at, <<Line("Error", <<>>, 0)>>)


----------------------------------------------------------------------------
(* refresh_agents_files: one step per path key *)

\* (project_root / path_key).resolve()
TargetDir(key) == Resolve(Under(ProjectRoot, key))

\* the containment check left out
WithinRoot_Unchecked(target) == TRUE

\* target_dir.relative_to(project_root.resolve()) does not raise
WithinRoot(target) == IsRelativeTo(target, Resolve(ProjectRoot))

\* a root document without the preamble
RootDocument_Bare(text) == text

\* the root AGENTS.md: the preamble, then a blank line and the sections if any
RootDocument(text) ==
    IF text # <<>> THEN RootAgentsPreamble \o <<"\n">> \o text ELSE RootAgentsPreamble

\* sync_helpers.refresh_agents_files, the loop body for mappings[idx]
RefreshStep ==
    /\ pc = "refresh"
    /\ idx <= Len(mappings)
    /\ LET key     == mappings[idx].path
           target  == TargetDir(key)
           doc     == ComposeAgentsDocument(mappings[idx].mds,
                                            target \o <<"AGENTS.local.md">>, files)
           content == IF target = Resolve(ProjectRoot) THEN RootDocument(doc.text)
                      ELSE doc.text
           agents  == target \o <<"AGENTS.md">>
       IN  IF ~WithinRoot(target)
           THEN /\ Fails("OutOfBounds", "refresh", idx)
                /\ UNCHANGED <<fsVars, netCalls, refreshed, idx, hist>>
           ELSE IF doc.err # "none"
           THEN /\ dirs' = MkdirP(dirs, target)
                /\ netCalls' = netCalls \o doc.calls
                /\ Fails(doc.err, "refresh", idx)
                /\ Log(<<Effect("mkdir", idx, target)>>)
                /\ UNCHANGED <<files, refreshed, idx>>
           ELSE /\ dirs' = MkdirP(dirs, target)
                /\ files' = WriteFile(files, agents, content)
                /\ netCalls' = netCalls \o doc.calls
                /\ refreshed' = Append(refreshed, agents)
                /\ idx' = idx + 1
                /\ Log(<<Effect("mkdir", idx, target), Effect("write", idx, agents)>>)
                /\ UNCHANGED <<pc, endVars>>
    /\ UNCHANGED <<config, cmd, mappings, rebuilt, dl, opCount, pureVars, remote>>

\* the download `add --module` starts: _download_github_module(slug, target_dir)
AddDownload ==
    [NoDl EXCEPT !.slugs = <<cmd.slug>>, !.root = TargetDir(cmd.key)]

\* refresh_agents_files returns; `sync` turns to the modules, `add` to its download
RefreshEnd ==
    /\ pc = "refresh"
    /\ idx > Len(mappings)
    /\ IF cmd.kind = "sync"
       THEN pc' = "modules" /\ idx' = 1 /\ dl' = dl
       ELSE IF cmd.module
       THEN pc' = "download" /\ dl' = AddDownload /\ idx' = idx
       ELSE pc' = "finish" /\ dl' = dl /\ idx' = idx
    /\ UNCHANGED <<config, fsVars, cmd, mappings, refreshed, rebuilt, netCalls,
                   endVars, opCount, hist, pureVars, remote>>

----------------------------------------------------------------------------
(* run_sync_command *)

SyncStart ==
    /\ pc = "idle"
    /\ opCount < MaxOps
    /\ opCount' = opCount + 1
    /\ cmd' = [NoCmd EXCEPT !.kind = "sync"]
    /\ hist' = HistAtStart
    /\ LET loaded == LoadMappings(config)
       IN  /\ mappings' = loaded.mappings
           /\ IF loaded.err # "none"
              THEN Fails(loaded.err, "load", 0)
              ELSE pc' = "refresh" /\ exitCode' = -1 /\ err' = NoErr /\ printed' = <<>>
    /\ idx' = 1
    /\ refreshed' = <<>>
    /\ rebuilt' = <<>>
    /\ dl' = NoDl
    /\ netCalls' = <<>>
    /\ UNCHANGED <<config, fsVars, pureVars, remote>>

\* [md_entry["name"] for md_entry in mds if md_entry["module"]]
IsModule(md) == md.module

ModuleNames(mds) ==
    LET flagged == SelectSeq(mds, IsModule)
    IN  [i \in 1..Len(flagged) |-> flagged[i].name]

\* a loop that rebuilds only where there are module entries
NeedsRebuild_NamesOnly(names, hadModulesDir) == names # <<>>

\* whether the loop of run_sync_command calls rebuild_modules_for_path
NeedsRebuild(names, hadModulesDir) == names # <<>> \/ hadModulesDir

\* run_sync_command, the loop body for mappings[idx] up to and including the
\* removal in rebuild_modules_for_path
ModulesStep ==
    /\ pc = "modules"
    /\ idx <= Len(mappings)
    /\ LET target == TargetDir(mappings[idx].path)
           names  == ModuleNames(mappings[idx].mds)
           root   == target \o <<".agmd">>
       IN  IF ~WithinRoot(target)
           THEN /\ Fails("OutOfBounds", "modules", idx)
                /\ UNCHANGED <<fsVars, idx, dl, rebuilt, hist>>
           ELSE IF ~NeedsRebuild(names, Exists(dirs, files, root))
           THEN /\ idx' = idx + 1
                /\ UNCHANGED <<fsVars, pc, endVars, dl, rebuilt, hist>>
           ELSE /\ dirs' = RemoveDirs(dirs, root)
                /\ files' = RemoveFiles(files, root)
                /\ Log(IF Exists(dirs, files, root)
                       THEN <<Effect("rmtree", idx, root)>> ELSE <<>>)
                /\ IF names = <<>>
                   THEN /\ rebuilt' = Append(rebuilt, <<root, 0>>)
                        /\ idx' = idx + 1
                        /\ UNCHANGED <<pc, endVars, dl>>
                   ELSE /\ dl' = [NoDl EXCEPT !.slugs = names, !.root = target]
                        /\ pc' = "download"
                        /\ UNCHANGED <<idx, rebuilt, endVars>>
    /\ UNCHANGED <<config, cmd, mappings, refreshed, netCalls, opCount, pureVars, remote>>

RefreshedLines == [i \in 1..Len(refreshed) |-> Line("Refreshed", refreshed[i], 0)]

RebuiltLines == [i \in 1..Len(rebuilt) |-> Line("Rebuilt", rebuilt[i][1], rebuilt[i][2])]

\* run_sync_command after its loops: the report
SyncFinish ==
    /\ pc = "modules"
    /\ idx > Len(mappings)
    /\ Ends(0, "none", "none", 0,
            IF refreshed = <<>> THEN <<Line("No configured paths", <<>>, 0)>>
            ELSE RefreshedLines \o RebuiltLines)
    /\ UNCHANGED <<config, fsVars, cmd, mappings, idx, refreshed, rebuilt, dl,
                   netCalls, opCount, hist, pureVars, remote>>


----------------------------------------------------------------------------
(* download_github_module (module_helpers) and _download_github_module      *)
(* (add_command): the same code twice                                       *)

\* the index of the path key a download works for
DlKey == IF cmd.kind = "sync" THEN idx ELSE DictGet(mappings, cmd.key)

\* the lines before the work-list loop
DlBegin ==
    /\ pc = "download"
    /\ ~dl.active
    /\ dl.slugs # <<>>
    /\ LET slug   == Head(dl.slugs)
           parsed == ParseGithubPath(slug)
           name   == ModuleSlugDirectoryName(slug)
           prefix == StripSet(JoinSlash(parsed.rest), {"/"})
       IN  IF parsed.err # "none"
           THEN Fails(parsed.err, "download", DlKey) /\ dl' = dl
           ELSE /\ dl' = [dl EXCEPT !.active = TRUE,
                                    !.dest = dl.root \o <<".agmd", name.name>>,
                                    !.owner = parsed.owner,
                                    !.repo = parsed.repo,
                                    !.prefix = prefix,
                                    !.pending = <<prefix>>,
                                    !.entries = <<>>,
                                    !.count = 0,
                                    !.mark = Len(hist.effects),
                                    !.calls = Len(netCalls)]
                /\ UNCHANGED <<pc, endVars>>
    /\ UNCHANGED <<config, fsVars, cmd, mappings, idx, refreshed, rebuilt, netCalls,
                   opCount, hist, pureVars, remote>>

\* a pop that takes two paths off the work list
AfterPop_DropsTwo(pending) == Front(Front(pending))

\* the work list after pending_paths.pop()
AfterPop(pending) == Front(pending)

\* current_path = pending_paths.pop(); payload = _fetch_json(...)
DlList ==
    /\ pc = "download"
    /\ dl.active
    /\ dl.entries = <<>>
    /\ dl.pending # <<>>
    /\ LET url == GithubContentsApiUrl(dl.owner, dl.repo, Last(dl.pending))
           r   == FetchJson(url)
       IN  /\ netCalls' = Append(netCalls, url)
           /\ IF ~r.ok
              THEN Fails("FetchError", "download", DlKey) /\ dl' = dl
              ELSE /\ dl' = [dl EXCEPT !.pending = AfterPop(dl.pending),
                                       !.entries = r.entries]
                   /\ UNCHANGED <<pc, endVars>>
    /\ UNCHANGED <<config, fsVars, cmd, mappings, idx, refreshed, rebuilt,
                   opCount, hist, pureVars, remote>>

\* relative_part of a file entry, as the raw path Path(relative_part)
RelativePart(prefix, entryPath) ==
    IF prefix # <<>>
    THEN IF IsPrefix(prefix, entryPath)
         THEN PathOfStr(LStrip(SubSeq(entryPath, Len(prefix) + 1, Len(entryPath)), {"/"}))
         ELSE <<Last(PathOfStr(entryPath))>>
    ELSE PathOfStr(entryPath)

\* destination_path = module_destination / Path(relative_part)
DestinationPath(dest, rel) == Under(dest, rel)

\* one entry of the listing: a directory is queued, a file is downloaded
DlEntry ==
    /\ pc = "download"
    /\ dl.active
    /\ dl.entries # <<>>
    /\ LET e    == Head(dl.entries)
           path == DestinationPath(dl.dest, RelativePart(dl.prefix, e.path))
           at   == Resolve(path)
       IN  IF e.type = "dir"
           THEN /\ dl' = [dl EXCEPT !.entries = Tail(dl.entries),
                                    !.pending = Append(dl.pending, e.path)]
                /\ UNCHANGED <<fsVars, netCalls, hist>>
           ELSE IF e.type = "file" /\ e.url # NoUrl
           THEN /\ dirs' = MkdirP(dirs, Resolve(Front(path)))
                /\ files' = WriteFile(files, at, DownloadBytes(e.url))
                /\ netCalls' = Append(netCalls, e.url)
                /\ dl' = [dl EXCEPT !.entries = Tail(dl.entries), !.count = dl.count + 1]
                /\ Log(<<Effect("dlmkdir", DlKey, Resolve(Front(path))),
                         Effect("dlwrite", DlKey, at)>>)
           ELSE /\ dl' = [dl EXCEPT !.entries = Tail(dl.entries)]
                /\ UNCHANGED <<fsVars, netCalls, hist>>
    /\ UNCHANGED <<config, pc, cmd, mappings, idx, refreshed, rebuilt, endVars,
                   opCount, pureVars, remote>>

\* a download that accepts a module without files
IsEmptyModule_Never(count) == FALSE

\* if file_count == 0: raise ValueError("No files found ...")
IsEmptyModule(count) == count = 0

\* the work list is empty: `if file_count == 0: raise`, else the count is
\* returned and the caller goes on (the next slug, the next path, the report)
DlEnd ==
    /\ pc = "download"
    /\ dl.active
    /\ dl.entries = <<>>
    /\ dl.pending = <<>>
    /\ IF IsEmptyModule(dl.count)
       THEN /\ Fails("EmptyModule", "download", DlKey)
            /\ UNCHANGED <<dl, idx, rebuilt>>
       ELSE IF Len(dl.slugs) > 1
       THEN /\ dl' = [dl EXCEPT !.slugs = Tail(dl.slugs), !.active = FALSE,
                                !.total = dl.total + dl.count]
            /\ UNCHANGED <<pc, endVars, idx, rebuilt>>
       ELSE IF cmd.kind = "sync"
       THEN /\ rebuilt' = Append(rebuilt, <<dl.root \o <<".agmd">>, dl.total + dl.count>>)
            /\ idx' = idx + 1
            /\ pc' = "modules"
            /\ dl' = NoDl
            /\ UNCHANGED endVars
       ELSE /\ dl' = [NoDl EXCEPT !.total = dl.total + dl.count]
            /\ pc' = "finish"
            /\ UNCHANGED <<endVars, idx, rebuilt>>
    /\ UNCHANGED <<config, fsVars, cmd, mappings, refreshed, netCalls, opCount,
                   hist, pureVars, remote>>

----------------------------------------------------------------------------
(* run_add_command *)

HasName(mds, slug) == \E i \in 1..Len(mds) : mds[i].name = slug

FirstNamed(mds, slug) == CHOOSE i \in 1..Len(mds) :
    mds[i].name = slug /\ \A j \in 1..(i - 1) : mds[j].name # slug

\* an add that appends without looking for the name
AddEntry_AlwaysAppends(mds, slug, module) == Append(mds, [name |-> slug, module |-> module])

\* an add that leaves the entry list as it is
AddEntry_Nothing(mds, slug, module) == mds

\* the entry list of the path after `add slug [--module]`
AddEntry(mds, slug, module) ==
    IF ~HasName(mds, slug) THEN Append(mds, [name |-> slug, module |-> module])
    ELSE IF module
         THEN [mds EXCEPT ![FirstNamed(mds, slug)].module = TRUE]
    ELSE mds

\* run_add_command up to write_mappings
AddStart(raw, slugArg, module) ==
    /\ pc = "idle"
    /\ opCount < MaxOps
    /\ opCount' = opCount + 1
    /\ hist' = HistAtStart
    /\ LET loaded == LoadMappings(config)
           norm   == NormalizeLocalPath(raw)
           slug   == Strip(slugArg)
           old    == IF DictHas(loaded.mappings, norm.key)
                     THEN loaded.mappings[DictGet(loaded.mappings, norm.key)].mds
                     ELSE <<>>
           new    == DictSet(loaded.mappings, norm.key, AddEntry(old, slug, module))
       IN  /\ cmd' = [kind |-> "add", path |-> raw, slug |-> slug, module |-> module,
                      key |-> norm.key]
           /\ IF loaded.err # "none"
              THEN /\ Fails(loaded.err, "load", 0)
                   /\ UNCHANGED <<config, mappings>>
              ELSE IF norm.err # "none"
              THEN /\ Fails(norm.err, "normalize", 0)
                   /\ mappings' = loaded.mappings
                   /\ config' = config
              ELSE /\ mappings' = new
                   /\ config' = WriteMappings(new)
                   /\ pc' = "refresh"
                   /\ exitCode' = -1
                   /\ err' = NoErr
                   /\ printed' = <<>>
    /\ idx' = 1
    /\ refreshed' = <<>>
    /\ rebuilt' = <<>>
    /\ dl' = NoDl
    /\ netCalls' = <<>>
    /\ UNCHANGED <<fsVars, pureVars, remote>>

\* run_add_command after the try block: the report
AddFinish ==
    /\ pc = "finish"
    /\ Ends(0, "none", "none", 0,
            <<Line("Updated", <<>>, 0)>>
            \o (IF cmd.module
                THEN <<Line("Downloaded", TargetDir(cmd.key) \o <<".agmd">>, dl.total)>>
                ELSE <<>>)
            \o RefreshedLines)
    /\ UNCHANGED <<config, fsVars, cmd, mappings, idx, refreshed, rebuilt, dl,
                   netCalls, opCount, hist, pureVars, remote>>

----------------------------------------------------------------------------
(* The user edits agmd.yml by hand between two commands *)

RemoveAt(sq, j) == SubSeq(sq, 1, j - 1) \o SubSeq(sq, j + 1, Len(sq))

Edited(doc, what) ==
    /\ pc = "idle"
    /\ opCount < MaxOps
    /\ opCount' = opCount + 1
    /\ config' = [exists |-> TRUE, doc |-> doc]
    /\ cmd' = what
    /\ hist' = HistAtStart
    /\ UNCHANGED <<fsVars, pc, mappings, idx, refreshed, rebuilt, dl, netCalls,
                   endVars, pureVars, remote>>

\* an entry is deleted from a path's mds
HandRemove ==
    \E i \in 1..Len(config.doc) : \E j \in 1..Len(config.doc[i].mds) :
        Edited([config.doc EXCEPT ![i].mds = RemoveAt(config.doc[i].mds, j)],
               [kind |-> "edit", path |-> config.doc[i].path,
                slug |-> config.doc[i].mds[j].name,
                module |-> (config.doc[i].mds[j].module = "true"),
                key |-> config.doc[i].path])

\* a record is appended, its path written as the user likes
HandInsert ==
    \E r \in HandRecords :
        /\ \A i \in 1..Len(config.doc) : config.doc[i].path # r.path
        /\ Edited(Append(config.doc, r), [NoCmd EXCEPT !.kind = "edit"])

----------------------------------------------------------------------------
(* run_init_command *)

\* the mds of a path after one more PATH=SLUG entry names it
InitEntry(mds, slug) ==
    IF HasName(mds, slug) THEN mds ELSE Append(mds, [name |-> slug, module |-> FALSE])

\* init_command._parse_mapping_entries over the -m arguments, each a
\* [path, slug] pair (the two sides of the "=")
RECURSIVE ParseMappingEntries(_, _)
ParseMappingEntries(entries, acc) ==
    IF entries = <<>> THEN [err |-> "none", mappings |-> acc]
    ELSE LET e    == Head(entries)
             slug == Strip(e.slug)
             norm == ParseMappingPath(e.path)
             old  == IF DictHas(acc, norm.key) THEN acc[DictGet(acc, norm.key)].mds
                     ELSE <<>>
         IN  IF e.path = <<>> \/ slug = <<>>
             THEN [err |-> "InvalidMapping", mappings |-> <<>>]
             ELSE IF norm.err # "none" THEN [err |-> norm.err, mappings |-> <<>>]
             ELSE ParseMappingEntries(Tail(entries),
                                      DictSet(acc, norm.key, InitEntry(old, slug)))

Gitignore == ProjectRoot \o <<".gitignore">>

IsRule(t) == t # "\n"

\* init_command._ensure_gitignore_rule
EnsureGitignoreRule(fl, rule) ==
    LET lines == IF Gitignore \in DOMAIN fl THEN SelectSeq(fl[Gitignore], IsRule) ELSE <<>>
        all   == Append(lines, rule)
    IN  IF rule \in Range(lines) THEN fl
        ELSE WriteFile(fl, Gitignore, Flatten([n \in 1..Len(all) |-> <<all[n], "\n">>]))

\* the AGENTS.md files project_root.rglob finds, those below a .git excepted
AgentsFiles(fl) ==
    {f \in DOMAIN fl : IsPrefix(ProjectRoot, f) /\ Last(f) = "AGENTS.md" /\ ".git" \notin Range(f)}

\* agents_path.with_name("AGENTS.local.md")
LocalName(f) == Front(f) \o <<"AGENTS.local.md">>

\* init_command._move_agents_files: Path.replace puts each AGENTS.md in the
\* place of its sibling AGENTS.local.md, whether or not there is one
MoveAgentsFiles(fl) ==
    LET moved == AgentsFiles(fl)
    IN  [q \in (DOMAIN fl \ moved) \cup {LocalName(f) : f \in moved} |->
            IF \E f \in moved : LocalName(f) = q
            THEN fl[CHOOSE f \in moved : LocalName(f) = q]
            ELSE fl[q]]

\* run_init_command with the -m arguments `entries`
InitStart(entries) ==
    /\ pc = "idle"
    /\ opCount < MaxOps
    /\ opCount' = opCount + 1
    /\ cmd' = [NoCmd EXCEPT !.kind = "init"]
    /\ hist' = HistAtStart
    /\ LET parsed == ParseMappingEntries(entries, <<>>)
       IN  IF ~config.exists /\ parsed.err # "none"
           THEN /\ Fails(parsed.err, "parse", 0)
                /\ UNCHANGED <<config, fsVars>>
           ELSE /\ config' = IF config.exists THEN config ELSE WriteMappings(parsed.mappings)
                /\ files' = MoveAgentsFiles(
                                EnsureGitignoreRule(EnsureGitignoreRule(files, "AGENTS.md"),
                                                    "**/.agmd/"))
                /\ dirs' = dirs
                /\ Ends(0, "none", "none", 0,
                        <<Line(IF config.exists THEN "Skipped" ELSE "Created", <<>>, 0),
                          Line("Updated", Gitignore, 0),
                          Line("Renamed", <<>>, Cardinality(AgentsFiles(files)))>>)
    /\ UNCHANGED <<mappings, idx, refreshed, rebuilt, dl, netCalls, pureVars, remote>>

----------------------------------------------------------------------------
(* The remote changes between two commands: a/b loses its directory d *)

RemoteChanges ==
    /\ pc = "idle"
    /\ opCount < MaxOps
    /\ opCount' = opCount + 1
    /\ remote = "base"
    /\ remote' = "later"
    /\ cmd' = [NoCmd EXCEPT !.kind = "remote"]
    /\ hist' = HistAtStart
    /\ UNCHANGED <<config, fsVars, pc, mappings, idx, refreshed, rebuilt, dl, netCalls,
                   endVars, pureVars>>

----------------------------------------------------------------------------

Add == \E a \in AddArgs : AddStart(a.path, a.slug, a.module)

Next ==
    \/ SyncStart
    \/ Add
    \/ RefreshStep
    \/ RefreshEnd
    \/ ModulesStep
    \/ SyncFinish
    \/ DlBegin
    \/ DlList
    \/ DlEntry
    \/ DlEnd
    \/ AddFinish
    \/ HandRemove
    \/ HandInsert
    \/ RemoteChanges

Spec == Init /\ [][Next]_vars

----------------------------------------------------------------------------
(* A sync that is stopped from outside (Ctrl-C, kill) between two of its    *)
(* steps, in projects that are synced again and again: configs of two keys  *)
(* that are apart, nested in a .agmd, or name one directory twice, with and *)
(* without modules, and a deeper tree; some with files an earlier run left  *)
(* in a .agmd                                                               *)

YamlMd(slug, module) == [name |-> slug, module |-> IF module THEN "true" ELSE "false"]

KillDocs ==
    {<<[path |-> <<".">>, mds |-> <<YamlMd(Slug_ab, TRUE), YamlMd(Slug_cd, FALSE)>>],
       [path |-> <<"sub">>, mds |-> <<YamlMd(Slug_cd, FALSE)>>]>>,
     <<[path |-> <<".">>, mds |-> <<YamlMd(Slug_ab, TRUE)>>],
       [path |-> <<".agmd", "a_b">>, mds |-> <<YamlMd(Slug_cd, TRUE)>>]>>,
     <<[path |-> <<".">>, mds |-> <<YamlMd(Slug_ab, TRUE)>>],
       [path |-> <<"sub", "..">>, mds |-> <<YamlMd(Slug_cd, TRUE)>>]>>,
     <<[path |-> <<".">>, mds |-> <<YamlMd(Slug_tr, TRUE)>>]>>,
     <<[path |-> <<".">>, mds |-> <<YamlMd(Slug_ab, TRUE)>>],
       [path |-> <<"sub">>, mds |-> <<YamlMd(Slug_cd, TRUE)>>]>>}

\* files of earlier runs: a mirror of a/b with a file the remote no longer
\* has, and a mirror under sub
StaleFiles ==
    ((ProjectRoot \o <<".agmd", "a_b", "old">>) :> <<"a", "b", "old">>) @@
    ((ProjectRoot \o <<"sub", ".agmd", "c_d", "h">>) :> <<"c", "d", "h">>)

InitKill ==
    /\ \E doc \in KillDocs : \E fl \in {NoFiles, RootLocal, RootLocal @@ StaleFiles} :
          InitWith(fl, doc, "base")
    /\ fin = <<>>
    /\ fout = <<>>

\* the running sync is stopped where it is
Interrupt ==
    /\ cmd.kind = "sync"
    /\ pc \in {"refresh", "modules", "download"}
    /\ Ends(130, "Interrupted", pc, idx, <<>>)
    /\ UNCHANGED <<config, fsVars, cmd, mappings, idx, refreshed, rebuilt, dl, netCalls,
                   opCount, hist, pureVars, remote>>

NextKill ==
    \/ SyncStart
    \/ Interrupt
    \/ RefreshStep
    \/ RefreshEnd
    \/ ModulesStep
    \/ SyncFinish
    \/ DlBegin
    \/ DlList
    \/ DlEntry
    \/ DlEnd

SpecKill == InitKill /\ [][NextKill]_vars

----------------------------------------------------------------------------
(* The order of the path keys: between two syncs the user moves a record of *)
(* agmd.yml one place up, which changes the order in which sync takes the   *)
(* keys and nothing else                                                    *)

SwapAt(sq, j) == [n \in 1..Len(sq) |-> IF n = j THEN sq[j + 1] ELSE IF n = j + 1 THEN sq[j] ELSE sq[n]]

HandSwap ==
    \E j \in 1..(Len(config.doc) - 1) :
        Edited(SwapAt(config.doc, j), [NoCmd EXCEPT !.kind = "swap"])

InitOrder ==
    /\ \E doc \in KillDocs : \E fl \in {NoFiles, RootLocal} : InitWith(fl, doc, "base")
    /\ fin = <<>>
    /\ fout = <<>>

NextOrder ==
    \/ SyncStart
    \/ HandSwap
    \/ RefreshStep
    \/ RefreshEnd
    \/ ModulesStep
    \/ SyncFinish
    \/ DlBegin
    \/ DlList
    \/ DlEntry
    \/ DlEnd

SpecOrder == InitOrder /\ [][NextOrder]_vars

----------------------------------------------------------------------------
(* Module downloads on their own: add --module and sync over the tree of    *)
(* t/r, its subtree d, the listings of h/x and the module without files,    *)
(* with the remote listing siblings in either order.  A download that runs  *)
(* is not stopped from outside: it takes its next step.                     *)

WalkArgs ==
    {AddArg(<<".">>, Slug_tr, TRUE),
     AddArg(<<"sub">>, Slug_trd, TRUE),
     AddArg(<<".">>, Slug_hx, TRUE),
     AddArg(<<"sub">>, Slug_hxd, TRUE),
     AddArg(<<".">>, Slug_ae, TRUE)}

InitWalk ==
    /\ \E world \in {"base", "swapped"} : InitWith(NoFiles, <<>>, world)
    /\ fin = <<>>
    /\ fout = <<>>

AddWalk == \E a \in WalkArgs : AddStart(a.path, a.slug, a.module)

NextWalk ==
    \/ SyncStart
    \/ AddWalk
    \/ RefreshStep
    \/ RefreshEnd
    \/ ModulesStep
    \/ SyncFinish
    \/ DlBegin
    \/ DlList
    \/ DlEntry
    \/ DlEnd
    \/ AddFinish

WalkSteps == DlBegin \/ DlList \/ DlEntry \/ DlEnd

\* the guards of the four download steps
CanWalk ==
    /\ pc = "download"
    /\ \/ ~dl.active /\ dl.slugs # <<>>
       \/ dl.active /\ dl.entries = <<>> /\ dl.pending # <<>>
       \/ dl.active /\ dl.entries # <<>>
       \/ dl.active /\ dl.entries = <<>> /\ dl.pending = <<>>

\* weak fairness of the download steps, WF_vars(WalkSteps), with
\* ENABLED <<WalkSteps>>_vars written out as the steps' guards
WalkFair == []<>(~CanWalk) \/ []<><<WalkSteps>>_vars

SpecWalk == InitWalk /\ [][NextWalk]_vars /\ WF_vars(DlList) /\ WF_vars(DlEnd) /\ WalkFair

----------------------------------------------------------------------------
(* A project from before its first `agmd init`: no agmd.yml yet, and        *)
(* possibly an AGENTS.md its owner wrote.  The commands are init, add and   *)
(* sync; nobody edits agmd.yml by hand.                                     *)

MapArg(path, slug) == [path |-> path, slug |-> slug]

\* the -m lists of the `init` invocations: none, one entry, a list that names
\* a/b twice for the root, a path outside the project, a blank slug
InitArgs ==
    {<<>>,
     <<MapArg(<<".">>, Slug_ab)>>,
     <<MapArg(<<".">>, Slug_ab), MapArg(<<"sub">>, Slug_cd), MapArg(<<".">>, <<" ">> \o Slug_ab)>>,
     <<MapArg(<<"..", "etc">>, Slug_ab)>>,
     <<MapArg(<<".">>, <<" ">>)>>}

RootAuthored == (ProjectRoot \o <<"AGENTS.md">>) :> LocalNotes

BeforeInit(fl) ==
    /\ config = [exists |-> FALSE, doc |-> <<>>]
    /\ remote = "base"
    /\ dirs = Prefixes(ProjectRoot)
    /\ files = fl
    /\ pc = "idle"
    /\ cmd = NoCmd
    /\ mappings = <<>>
    /\ idx = 0
    /\ refreshed = <<>>
    /\ rebuilt = <<>>
    /\ dl = NoDl
    /\ netCalls = <<>>
    /\ exitCode = -1
    /\ err = NoErr
    /\ printed = <<>>
    /\ opCount = 0
    /\ hist = [dirs0 |-> {}, files0 |-> <<>>, config0 |-> [exists |-> FALSE, doc |-> <<>>],
               afterSync |-> FALSE, removed |-> NoCmd, effects |-> <<>>, good |-> NoGood]

InitProject ==
    /\ \E fl \in {NoFiles, RootAuthored} : BeforeInit(fl)
    /\ fin = <<>>
    /\ fout = <<>>

InitCmd == \E entries \in InitArgs : InitStart(entries)

NextInit ==
    \/ InitCmd
    \/ SyncStart
    \/ Add
    \/ RefreshStep
    \/ RefreshEnd
    \/ ModulesStep
    \/ SyncFinish
    \/ DlBegin
    \/ DlList
    \/ DlEntry
    \/ DlEnd
    \/ AddFinish

SpecInit == InitProject /\ [][NextInit]_vars


----------------------------------------------------------------------------
(* The path normalizer on its own: every raw path of up to MaxRawLen        *)
(* segments, relative and absolute                                          *)

SeqsUpTo(S, n) == UNION {[1..k -> S] : k \in 0..n}

RawSegs == {"..", ".", "sub", "home", "p", "etc"}

RawPaths ==
    SeqsUpTo(RawSegs, MaxRawLen) \cup {<<"/">> \o r : r \in SeqsUpTo(RawSegs, MaxRawLen)}

InitNorm ==
    /\ MainInit(NoFiles)
    /\ fin \in RawPaths
    /\ fout = [fn |-> "none", err |-> "none", key |-> <<>>]

\* add --path <fin>
RunNormalize ==
    /\ fout.fn = "none"
    /\ fout' = [fn |-> "add"] @@ NormalizeLocalPath(fin)
    /\ UNCHANGED <<config, fsVars, runVars, endVars, opCount, hist, fin, remote>>

\* init -m <fin>=<slug>
RunParseMapping ==
    /\ fout.fn = "none"
    /\ fout' = [fn |-> "init"] @@ ParseMappingPath(fin)
    /\ UNCHANGED <<config, fsVars, runVars, endVars, opCount, hist, fin, remote>>

NextNorm == RunNormalize \/ RunParseMapping

SpecNorm == InitNorm /\ [][NextNorm]_vars

\* C1: normalization fails with OutOfBounds for every raw path that resolves
\* to a location outside ProjectRoot, and every key it returns denotes
\* ProjectRoot or a descendant of it
C1_Containment ==
    fout.fn # "none" =>
        /\ ~InsideRoot(Under(ProjectRoot, fin)) => fout.err = "OutOfBounds"
        /\ fout.err = "none" => InsideRoot(Under(ProjectRoot, fout.key))


----------------------------------------------------------------------------
(* The directory names of module mirrors on their own: every pair of slugs  *)
(* of up to MaxSlugLen characters over a letter, "/" and "_"                *)

SlugChars == {"a", "/", "_"}

Slugs == SeqsUpTo(SlugChars, MaxSlugLen) \ {<<>>}

InitSlug ==
    /\ MainInit(NoFiles)
    /\ fin \in Slugs \X Slugs
    /\ fout = [fn |-> "none", names |-> <<>>]

\* download_github_module up to module_destination, for the two entries
RunSlugNames ==
    /\ fout.fn = "none"
    /\ fout' = [fn |-> "names",
                names |-> <<ModuleSlugDirectoryName(fin[1]), ModuleSlugDirectoryName(fin[2])>>]
    /\ UNCHANGED <<config, fsVars, runVars, endVars, opCount, hist, fin, remote>>

NextSlug == RunSlugNames

SpecSlug == InitSlug /\ [][NextSlug]_vars

----------------------------------------------------------------------------
(* The config store on its own: write_mappings then load_mappings over       *)
(* every MappingSet of up to two paths with up to MaxEntries entries each,   *)
(* names with and without surrounding whitespace                             *)

StoreNames == {Slug_ab, <<" ">> \o Slug_ab, <<" ">>}

StoreMds == SeqsUpTo([name : StoreNames, module : BOOLEAN], MaxEntries)

StorePaths == {<<".">>, <<"sub">>}

\* the MappingSets: path keys distinct and non-empty, names non-empty
MappingSets ==
    {<<>>}
    \cup {<<[path |-> k, mds |-> m]>> : k \in StorePaths, m \in StoreMds}
    \cup {<<[path |-> k[1], mds |-> m[1]], [path |-> k[2], mds |-> m[2]]>> :
            k \in {q \in StorePaths \X StorePaths : q[1] # q[2]},
            m \in StoreMds \X StoreMds}

InitStore ==
    /\ MainInit(NoFiles)
    /\ fin \in MappingSets
    /\ fout = <<>>

\* write_mappings(config_path, fin)
StoreSave ==
    /\ cmd.kind = "none"
    /\ config' = WriteMappings(fin)
    /\ cmd' = [NoCmd EXCEPT !.kind = "save"]
    /\ UNCHANGED <<fsVars, pc, mappings, idx, refreshed, rebuilt, dl, netCalls,
                   endVars, opCount, hist, pureVars, remote>>

\* load_mappings(config_path)
StoreLoad ==
    /\ cmd.kind = "save"
    /\ LET loaded == LoadMappings(config)
       IN  /\ mappings' = loaded.mappings
           /\ err' = [NoErr EXCEPT !.kind = loaded.err]
    /\ cmd' = [NoCmd EXCEPT !.kind = "load"]
    /\ UNCHANGED <<config, fsVars, pc, idx, refreshed, rebuilt, dl, netCalls,
                   exitCode, printed, opCount, hist, pureVars, remote>>

NextStore == StoreSave \/ StoreLoad

SpecStore == InitStore /\ [][NextStore]_vars

\* every name of m is free of surrounding whitespace
CleanNames(m) ==
    \A i \in 1..Len(m) : \A j \in 1..Len(m[i].mds) :
        Strip(m[i].mds[j].name) = m[i].mds[j].name

\* m with every name stripped
Stripped(m) ==
    [i \in 1..Len(m) |->
        [path |-> m[i].path,
         mds  |-> [j \in 1..Len(m[i].mds) |->
                      [name |-> Strip(m[i].mds[j].name), module |-> m[i].mds[j].module]]]]

----------------------------------------------------------------------------
(* Properties of the commands *)

Ended == pc = "idle" /\ cmd.kind \in {"sync", "add"}

Succeeded(kind) == pc = "idle" /\ cmd.kind = kind /\ exitCode = 0

Running == cmd.kind \in {"sync", "add"}

KeyIndexes == 1..Len(mappings)

KeyTarget(i) == TargetDir(mappings[i].path)

OutsideKeys == {i \in KeyIndexes : ~InsideRoot(Under(ProjectRoot, mappings[i].path))}

EffectsOf(i) == {n \in 1..Len(hist.effects) : hist.effects[n].k = i}

\* C2: whatever agmd.yml holds, sync and add create no directory, write no
\* file and remove nothing outside ProjectRoot; a key that resolves outside the
\* root has nothing done for it, the command does not succeed, and when the
\* command reaches that key it fails with OutOfBounds
C2_NothingOutsideRoot ==
    /\ \A n \in 1..Len(hist.effects) : IsPrefix(ProjectRoot, hist.effects[n].path)
    /\ \A d \in dirs : IsPrefix(ProjectRoot, d) \/ IsPrefix(d, ProjectRoot)
    /\ \A f \in DOMAIN files : IsPrefix(ProjectRoot, f)
    /\ Running =>
          \A i \in OutsideKeys :
              /\ EffectsOf(i) = {}
              /\ pc = "idle" => exitCode = 1
              /\ (pc = "idle" /\ err.stage \in {"refresh", "modules"} /\ err.at = i)
                    => err.kind = "OutOfBounds"

\* a sync ended on a hand-written absolute key after it had refreshed a path
C2_Witness ==
    /\ pc = "idle"
    /\ cmd.kind = "sync"
    /\ err.kind = "OutOfBounds"
    /\ err.at > 1
    /\ IsAbsolute(mappings[err.at].path)
    /\ hist.effects # <<>>

\* the AGENTS.md of a directory: its content, or <<"absent">>
AgentsAt(fl, dir) ==
    IF (dir \o <<"AGENTS.md">>) \in DOMAIN fl THEN <<"file">> \o fl[dir \o <<"AGENTS.md">>]
    ELSE <<"absent">>

\* C3: a successful sync that directly follows a successful sync (same config,
\* same remote content, same AGENTS.local.md files) leaves the AGENTS.md of
\* every configured path exactly as the first sync left it
C3_SyncIdempotent ==
    (Succeeded("sync") /\ hist.afterSync) =>
        \A i \in KeyIndexes : AgentsAt(files, KeyTarget(i)) = AgentsAt(hist.files0, KeyTarget(i))

\* the second of two successful syncs ended, over a composed root document
\* with a remote section and the local section, and a module rebuilt
C3_Witness ==
    /\ Succeeded("sync")
    /\ hist.afterSync
    /\ Len(mappings) >= 1
    /\ \E i \in KeyIndexes : Len(AgentsAt(files, KeyTarget(i))) > Len(RootAgentsPreamble) + 1
    /\ rebuilt # <<>>

\* the files of fl under directory p
FilesUnder(fl, p) == {f \in DOMAIN fl : IsPrefix(p, f)}

\* the module directory of the path key i
ModulesRoot(i) == KeyTarget(i) \o <<".agmd">>

\* file f is a mirrored file of entry md of key i: it lies in the entry's
\* mirror directory and holds bytes of the entry's repository
MirrorOf(f, i, md) ==
    LET parsed == ParseGithubPath(md.name)
    IN  /\ md.module
        /\ parsed.err = "none"
        /\ IsPrefix(ModulesRoot(i) \o <<ModuleSlugDirectoryName(md.name).name>>, f)
        /\ files[f][1] = parsed.owner
        /\ files[f][2] = parsed.repo

\* file f was downloaded by the running command for key i
DownloadedFor(f, i) ==
    \E n \in EffectsOf(i) : hist.effects[n].act = "dlwrite" /\ hist.effects[n].path = f

\* the keys that denote the directory of key i
SameDir(i) == {j \in KeyIndexes : KeyTarget(j) = KeyTarget(i)}

\* every file in the module directory of key i's path was downloaded by this
\* command for an entry module-flagged for that path now
OnlyCurrentModules(i) ==
    \A f \in FilesUnder(files, ModulesRoot(i)) :
        \E j \in SameDir(i) :
            /\ DownloadedFor(f, j)
            /\ \E n \in 1..Len(mappings[j].mds) : MirrorOf(f, j, mappings[j].mds[n])

\* no key names a directory inside the .agmd of key i's path
KeepsModulesToItself(i) ==
    \A j \in KeyIndexes : ~IsPrefix(ModulesRoot(i), KeyTarget(j))

\* C4 (as stated): after a successful sync the .agmd of every configured path
\* holds only files of the entries module-flagged for that path now, so none
\* of an entry removed from the configuration
C4_OnlyCurrentModules ==
    Succeeded("sync") => \A i \in KeyIndexes : OnlyCurrentModules(i)

\* C4 (amended): the same for every path whose .agmd holds no configured
\* path's directory
C4_OnlyCurrentModulesOwnDir ==
    Succeeded("sync") =>
        \A i \in KeyIndexes : KeepsModulesToItself(i) => OnlyCurrentModules(i)

\* a sync succeeded right after a module entry was taken out of a path that
\* stays configured and keeps another module: the removed entry's mirrored
\* files were there when the sync began and are gone
C4_Witness ==
    /\ Succeeded("sync")
    /\ hist.removed.kind = "edit"
    /\ hist.removed.module
    /\ \E i \in KeyIndexes :
          /\ mappings[i].path = hist.removed.key
          /\ KeepsModulesToItself(i)
          /\ ModuleNames(mappings[i].mds) # <<>>
          /\ LET gone == ModulesRoot(i) \o <<ModuleSlugDirectoryName(hist.removed.slug).name>>
             IN  /\ FilesUnder(hist.files0, gone) # {}
                 /\ FilesUnder(files, gone) = {}
                 /\ FilesUnder(files, ModulesRoot(i)) # {}

\* the remote lists no file anywhere in the repository of the slug
ZeroFiles(slug) ==
    LET parsed == ParseGithubPath(slug)
    IN  /\ parsed.err = "none"
        /\ \E u \in DOMAIN ApiWorld : u.owner = parsed.owner /\ u.repo = parsed.repo
        /\ \A u \in DOMAIN ApiWorld :
              (u.owner = parsed.owner /\ u.repo = parsed.repo) =>
                  \A n \in 1..Len(ApiWorld[u]) : ApiWorld[u][n].type # "file"

\* the .agmd directories and what they hold
AgmdState(ds, fl) ==
    [dirs  |-> {d \in ds : ".agmd" \in Range(d)},
     files |-> [f \in {g \in DOMAIN fl : ".agmd" \in Range(g)} |-> fl[f]]]

EndedEmptyModule == pc = "idle" /\ Running /\ err.kind = "EmptyModule"

\* C5 (as stated): when add --module or sync fails with EmptyModule, every
\* .agmd directory is as it was before the command
C5_ModulesUntouched ==
    EndedEmptyModule => AgmdState(dirs, files) = AgmdState(hist.dirs0, hist.files0)

\* C5 (amended): a module without files makes add --module and sync fail with
\* EmptyModule, and the download of that module creates and writes nothing.
\* A failed add has removed nothing and left every .agmd as it was unless a
\* configured path lies inside one.  A failed sync has by then removed the
\* failing path's .agmd and downloaded again the modules listed before the
\* empty one: what its .agmd holds, this sync downloaded
C5_EmptyModule ==
    /\ Succeeded("sync") =>
          \A i \in KeyIndexes : \A n \in 1..Len(mappings[i].mds) :
              mappings[i].mds[n].module => ~ZeroFiles(mappings[i].mds[n].name)
    /\ (Succeeded("add") /\ cmd.module) => ~ZeroFiles(cmd.slug)
    /\ EndedEmptyModule =>
          /\ exitCode = 1
          /\ ZeroFiles(Head(dl.slugs))
          /\ Len(hist.effects) = dl.mark
          /\ cmd.kind = "add" =>
                /\ \A n \in 1..Len(hist.effects) : hist.effects[n].act \in {"mkdir", "write"}
                /\ (\A i \in KeyIndexes : ".agmd" \notin Range(KeyTarget(i)))
                      => AgmdState(dirs, files) = AgmdState(hist.dirs0, hist.files0)
          /\ (cmd.kind = "sync" /\ KeepsModulesToItself(err.at)) =>
                \A f \in FilesUnder(files, ModulesRoot(err.at)) : DownloadedFor(f, err.at)

\* a sync failed with EmptyModule on a path whose .agmd was populated; the
\* module listed before the empty one was downloaded again, a module that was
\* there before is gone
C5_Witness ==
    /\ EndedEmptyModule
    /\ cmd.kind = "sync"
    /\ FilesUnder(files, ModulesRoot(err.at)) # {}
    /\ FilesUnder(hist.files0, ModulesRoot(err.at)) \ DOMAIN files # {}

\* the slug has fewer than two "/"-separated segments
FewerThanTwoSegments(slug) == Len(SlashParts(StripSet(Strip(slug), {"/"}))) < 2

\* C6: add with a slug of fewer than two segments fails with InvalidSlug
\* before any network call is made, whatever the configuration holds
C6_InvalidSlugBeforeNetwork ==
    (pc = "idle" /\ cmd.kind = "add" /\ FewerThanTwoSegments(cmd.slug)) =>
        /\ err.kind = "InvalidSlug"
        /\ netCalls = <<>>

RootAgents == Resolve(ProjectRoot) \o <<"AGENTS.md">>

HasPreamble(fl, f) == f \in DOMAIN fl /\ IsPrefix(RootAgentsPreamble, fl[f])

\* no AGENTS.md of a configured path other than the root starts with the preamble
NoPreambleBelowRoot ==
    \A i \in KeyIndexes :
        KeyTarget(i) # Resolve(ProjectRoot) => ~HasPreamble(files, KeyTarget(i) \o <<"AGENTS.md">>)

\* C7 (as stated): after every successful sync or add the root AGENTS.md
\* exists and starts with the preamble, whether or not a key names the root,
\* and no other path's AGENTS.md has the preamble
C7_RootPreambleAlways ==
    (Succeeded("sync") \/ Succeeded("add")) =>
        /\ HasPreamble(files, RootAgents)
        /\ NoPreambleBelowRoot

\* C7 (amended): the same when some key resolves to the project root, its
\* entry list empty or not
C7_RootPreamble ==
    (Succeeded("sync") \/ Succeeded("add")) =>
        /\ (\E i \in KeyIndexes : KeyTarget(i) = Resolve(ProjectRoot))
              => HasPreamble(files, RootAgents)
        /\ NoPreambleBelowRoot

\* a sync succeeded over a root key without entries and another path with a
\* section: the root AGENTS.md is the preamble alone
C7_Witness ==
    /\ Succeeded("sync")
    /\ \E i \in KeyIndexes : KeyTarget(i) = Resolve(ProjectRoot) /\ mappings[i].mds = <<>>
    /\ RootAgents \in DOMAIN files
    /\ files[RootAgents] = RootAgentsPreamble
    /\ \E i \in KeyIndexes :
          /\ KeyTarget(i) # Resolve(ProjectRoot)
          /\ AgentsAt(files, KeyTarget(i)) \notin {<<"absent">>, <<"file">>}

\* the tokens of ts before the first "."
RECURSIVE UpToDot(_)
UpToDot(ts) ==
    IF ts = <<>> \/ Head(ts) = "." THEN <<>> ELSE <<Head(ts)>> \o UpToDot(Tail(ts))

\* the sources of the section headers of a document, in document order
RECURSIVE Headers(_)
Headers(text) ==
    IF text = <<>> THEN <<>>
    ELSE IF Head(text) = "# agmd start " THEN <<UpToDot(Tail(text))>> \o Headers(Tail(text))
    ELSE IF Head(text) = "# agmd local" THEN <<<<"local">>>> \o Headers(Tail(text))
    ELSE Headers(Tail(text))

\* the remote serves text other than whitespace for the slug's AGENTS.md
ServesText(md) ==
    LET u == GithubAgentsUrl(md.name)
    IN  u.err = "none" /\ u.url \in DOMAIN RawWorld /\ Strip(RawWorld[u.url]) # <<>>

\* the sections key i's AGENTS.md is to have: its entries in configuration
\* order, those without text left out, then the local notes if there are any
ExpectedHeaders(i) ==
    LET served == SelectSeq(mappings[i].mds, ServesText)
        local  == KeyTarget(i) \o <<"AGENTS.local.md">>
    IN  [n \in 1..Len(served) |-> served[n].name]
        \o (IF local \in DOMAIN files /\ Strip(files[local]) # <<>>
            THEN <<<<"local">>>> ELSE <<>>)

\* the keys of the write effects, in the order the files were written
WriteOrder ==
    LET writes == SelectSeq(hist.effects, LAMBDA e : e.act = "write")
    IN  [n \in 1..Len(writes) |-> writes[n].k]

\* C8: every AGENTS.md the refresh writes has its remote sections in
\* configuration order, entries without text left out, the local section
\* last; the files are written in MappingSet key order
C8_SectionOrder ==
    (pc = "refresh" /\ idx > 1) =>
        /\ Headers(files[Last(refreshed)]) = ExpectedHeaders(idx - 1)
        /\ refreshed = [i \in 1..(idx - 1) |-> KeyTarget(i) \o <<"AGENTS.md">>]
        /\ WriteOrder = [i \in 1..(idx - 1) |-> i]

\* the refresh wrote two files, the first with two remote sections around an
\* entry without text and the local section after them
C8_Witness ==
    /\ pc = "refresh"
    /\ idx = 3
    /\ Len(mappings[1].mds) = 3
    /\ ~ServesText(mappings[1].mds[2])
    /\ Len(Headers(files[refreshed[1]])) = 3
    /\ Headers(files[refreshed[1]])[3] = <<"local">>

FailedSync == pc = "idle" /\ cmd.kind = "sync" /\ err.kind # "none"

ModuleActs == {"rmtree", "dlmkdir", "dlwrite"}

\* the run reports the error alone and exits with 1
ReportsErrorOnly ==
    /\ exitCode = 1
    /\ printed = <<Line("Error", <<>>, 0)>>

TreeFiles(slug) ==
    LET parsed == ParseGithubPath(slug)
        prefix == JoinSlash(parsed.rest)
        under  == IF prefix = <<>> THEN <<>> ELSE prefix \o <<"/">>
        listed == UNION {{ApiWorld[u][n] : n \in 1..Len(ApiWorld[u])} :
                         u \in {v \in DOMAIN ApiWorld :
                                   v.owner = parsed.owner /\ v.repo = parsed.repo}}
    IN  {PathOfStr(SubSeq(e.path, Len(under) + 1, Len(e.path))) :
            e \in {x \in listed : x.type = "file" /\ IsPrefix(under, x.path)}}

\* the mirror directory of slug under key i
MirrorDir(i, slug) == ModulesRoot(i) \o <<ModuleSlugDirectoryName(slug).name>>

\* the mirror directory holds the files of the remote tree and no other
MirrorExact(i, slug) ==
    FilesUnder(files, MirrorDir(i, slug)) = {MirrorDir(i, slug) \o rel : rel \in TreeFiles(slug)}

\* key i alone names its directory, no key lies inside its .agmd and it lies
\* inside the .agmd of no key
OwnsItsModules(i) ==
    /\ SameDir(i) = {i}
    /\ KeepsModulesToItself(i)
    /\ \A j \in KeyIndexes : ~IsPrefix(ModulesRoot(j), KeyTarget(i))

\* C11: when sync or add --module succeeds, the mirror directory of every
\* module entry it ran for holds exactly the files of the remote tree as it
\* is then, none left from an earlier run (stated for the paths that share
\* neither their directory nor a .agmd with another key)
C11_MirrorRebuilt ==
    /\ Succeeded("sync") =>
          \A i \in KeyIndexes : \A n \in 1..Len(mappings[i].mds) :
              (OwnsItsModules(i) /\ mappings[i].mds[n].module)
                  => MirrorExact(i, mappings[i].mds[n].name)
    /\ (Succeeded("add") /\ cmd.module /\ OwnsItsModules(DictGet(mappings, cmd.key)))
          => MirrorExact(DictGet(mappings, cmd.key), cmd.slug)

\* the sections key i's document is to have, each a header line, a blank line
\* and the trimmed text
ExpectedSections(i) ==
    LET served == SelectSeq(mappings[i].mds, ServesText)
        local  == KeyTarget(i) \o <<"AGENTS.local.md">>
    IN  [n \in 1..Len(served) |->
            <<"# agmd start ">> \o served[n].name \o <<".", "\n", "\n">>
            \o Strip(RawWorld[GithubAgentsUrl(served[n].name).url])]
        \o (IF local \in DOMAIN files /\ Strip(files[local]) # <<>>
            THEN <<<<"# agmd local", "\n", "\n">> \o Strip(files[local])>>
            ELSE <<>>)

\* sections with one blank line between them and one newline at the end; the
\* empty text when there is no section
Joined(secs) ==
    IF secs = <<>> THEN <<>>
    ELSE Flatten([n \in 1..Len(secs) |->
                    IF n = 1 THEN secs[n] ELSE <<"\n", "\n">> \o secs[n]]) \o <<"\n">>

\* the AGENTS.md key i is to get
ExpectedFile(i) ==
    LET doc == Joined(ExpectedSections(i))
    IN  IF KeyTarget(i) # Resolve(ProjectRoot) THEN doc
        ELSE IF doc = <<>> THEN RootAgentsPreamble
        ELSE RootAgentsPreamble \o <<"\n">> \o doc

\* the configuration of the scenario: the root with one plain entry, and no
\* AGENTS.local.md in the root
OneRuleScenario ==
    /\ mappings = <<[path |-> <<".">>, mds |-> <<[name |-> Slug_ab, module |-> FALSE]>>]>>
    /\ (Resolve(ProjectRoot) \o <<"AGENTS.local.md">>) \notin DOMAIN files

----------------------------------------------------------------------------
(* Entries of a path under init and add *)

\* the entries of key k in a MappingSet, none when it has no such key
MdsAt(m, k) == IF DictHas(m, k) THEN m[DictGet(m, k)].mds ELSE <<>>

DistinctNames(mds) == \A i, j \in 1..Len(mds) : mds[i].name = mds[j].name => i = j

\* an add that got as far as write_mappings
AddWrote == cmd.kind = "add" /\ (pc # "idle" \/ err.stage \notin {"load", "normalize"})

\* C13: in a project whose agmd.yml comes from init and is only changed by
\* add, no path key ever holds two entries of one name; and an add leaves
\* every other key as it was, appends a new name after the entries the path
\* had, and for a name the path has already keeps the number, the order and
\* the names of the entries, changing at most the module flag of the first
\* entry of that name, from false to true, when --module is given.
C13_EntriesDistinctPerPath ==
    LET now == LoadMappings(config)
    IN  /\ now.err = "none" =>
              \A i \in 1..Len(now.mappings) : DistinctNames(now.mappings[i].mds)
        /\ AddWrote =>
              LET before == LoadMappings(hist.config0).mappings
                  old    == MdsAt(before, cmd.key)
                  new    == MdsAt(now.mappings, cmd.key)
              IN  /\ now.err = "none"
                  /\ Len(now.mappings) =
                        Len(before) + (IF DictHas(before, cmd.key) THEN 0 ELSE 1)
                  /\ \A i \in 1..Len(before) :
                        /\ now.mappings[i].path = before[i].path
                        /\ before[i].path # cmd.key => now.mappings[i] = before[i]
                  /\ IF HasName(old, cmd.slug)
                     THEN /\ Len(new) = Len(old)
                          /\ \A j \in 1..Len(old) :
                                /\ new[j].name = old[j].name
                                /\ new[j].module =
                                      (old[j].module
                                       \/ (cmd.module /\ j = FirstNamed(old, cmd.slug)))
                     ELSE new = Append(old, [name |-> cmd.slug, module |-> cmd.module])

\* add --module of a name the root has as the first of two plain entries
C13_Witness ==
    /\ Succeeded("add")
    /\ cmd.module
    /\ LET old == MdsAt(LoadMappings(hist.config0).mappings, cmd.key)
           new == MdsAt(LoadMappings(config).mappings, cmd.key)
       IN  /\ Len(old) = 2
           /\ old[1].name = cmd.slug
           /\ ~old[1].module
           /\ Len(new) = 2
           /\ new[1].module

----------------------------------------------------------------------------
(* The work list of a module download *)

\* the files of the remote trees, relative to the slug's subpath
TreeOf ==
    (Slug_tr :> {<<"f">>, <<"d", "g">>, <<"d", "k", "m">>}) @@
    (Slug_trd :> {<<"g">>, <<"k", "m">>})

\* the directories of the remote trees, as the paths the contents API is asked
DirsOf ==
    (Slug_tr :> {"", "d", "d/k", "e"}) @@
    (Slug_trd :> {"d", "d/k"})

\* the requests of the running download, by host, and its file writes
CallsTo(host) == {n \in (dl.calls + 1)..Len(netCalls) : netCalls[n].host = host}

Written == {n \in (dl.mark + 1)..Len(hist.effects) : hist.effects[n].act = "dlwrite"}

InWalk == pc = "download" /\ dl.active

\* the work list and the listing in hand are both used up
WalkDone == InWalk /\ dl.pending = <<>> /\ dl.entries = <<>>

WalkIsExact ==
    /\ pc = "download" => CanWalk
    /\ InWalk =>
        /\ \A m, n \in CallsTo("api") : netCalls[m] = netCalls[n] => m = n
        /\ \A m, n \in CallsTo("dl") : netCalls[m] = netCalls[n] => m = n
        /\ \A m, n \in Written : hist.effects[m].path = hist.effects[n].path => m = n
        /\ dl.count = Cardinality(Written)
        /\ dl.count = Cardinality(CallsTo("dl"))
        /\ (WalkDone /\ Head(dl.slugs) \in DOMAIN TreeOf) =>
              LET slug == Head(dl.slugs)
              IN  /\ dl.count = Cardinality(TreeOf[slug])
                  /\ {hist.effects[n].path : n \in Written}
                        = {dl.dest \o rel : rel \in TreeOf[slug]}
                  /\ {netCalls[n].path : n \in CallsTo("api")} = DirsOf[slug]
                  /\ \A n \in Written :
                        /\ hist.effects[n].path \in DOMAIN files
                        /\ files[hist.effects[n].path][1] = dl.owner

\* C14: a module download comes to an end, and while it runs it asks for no
\* listing twice, downloads no file twice and writes no file twice, its count
\* is the number of files written; when its work list is used up it has
\* listed every directory of the remote tree, written every file of the tree
\* and no other, and counted them, whichever way the remote orders siblings.
C14_WalkTerminatesExact ==
    /\ []WalkIsExact
    /\ (pc = "download") ~> (pc # "download")

\* the tree of t/r walked to its end, siblings listed in the opposite order
C14_Witness ==
    /\ WalkDone
    /\ remote = "swapped"
    /\ Head(dl.slugs) = Slug_tr
    /\ dl.count = 3
    /\ Cardinality(CallsTo("api")) = 4

----------------------------------------------------------------------------
(* Syncs that are stopped, and the sync after them *)

\* the mirror directories of key i hold the remote trees of its module
\* entries and its .agmd holds nothing else
ModulesExact(i) ==
    /\ \A n \in 1..Len(mappings[i].mds) :
          mappings[i].mds[n].module => MirrorExact(i, mappings[i].mds[n].name)
    /\ FilesUnder(files, ModulesRoot(i)) =
          UNION {FilesUnder(files, MirrorDir(i, mappings[i].mds[n].name)) :
                    n \in {m \in 1..Len(mappings[i].mds) : mappings[i].mds[m].module}}

\* the sync that ended follows a successful sync of the same agmd.yml and
\* remote, with nothing in between but syncs that were stopped
SinceGoodSync ==
    /\ Succeeded("sync")
    /\ hist.good.set
    /\ hist.good.config = config
    /\ hist.good.remote = remote

\* C15: a sync that succeeds leaves, for every path that shares neither its
\* directory nor a .agmd with another key, the AGENTS.md composed from the
\* remote texts and the local file, and a .agmd that holds the remote trees of
\* the path's module entries and no other file, whether or not syncs were
\* stopped before it at any step; and for any agmd.yml, a successful sync
\* after stopped syncs leaves the directories and files exactly as the last
\* successful sync of the same agmd.yml and remote left them.
C15_StoppedSyncLeavesNoTrace ==
    /\ Succeeded("sync") =>
          \A i \in KeyIndexes :
              OwnsItsModules(i) =>
                  /\ (KeyTarget(i) \o <<"AGENTS.md">>) \in DOMAIN files
                  /\ files[KeyTarget(i) \o <<"AGENTS.md">>] = ExpectedFile(i)
                  /\ ModulesExact(i)
    /\ SinceGoodSync => (files = hist.good.files /\ dirs = hist.good.dirs)

\* a sync succeeded after one that was stopped in the middle of a download,
\* with part of the mirror written
C15_Witness ==
    /\ SinceGoodSync
    /\ files # hist.files0
    /\ \E i \in KeyIndexes :
          /\ OwnsItsModules(i)
          /\ FilesUnder(hist.files0, ModulesRoot(i)) # {}
          /\ FilesUnder(hist.files0, ModulesRoot(i)) # FilesUnder(files, ModulesRoot(i))

----------------------------------------------------------------------------
(* The order in which sync takes the path keys *)

\* the sync that ended took the keys in another order than the successful
\* sync before it, of the same records and the same remote
SyncInOtherOrder ==
    /\ Succeeded("sync")
    /\ hist.good.set
    /\ hist.good.config # config
    /\ hist.good.remote = remote

----------------------------------------------------------------------------
(* When agmd.yml is written *)

\* add failed before it had a MappingSet and a path key
AddFailedEarly == cmd.kind = "add" /\ pc = "idle" /\ err.stage \in {"load", "normalize"}

\* agmd.yml holds the entry add was called with, flagged if --module was given
HoldsAddedEntry ==
    /\ config.exists
    /\ \E i \in 1..Len(config.doc) :
          /\ config.doc[i].path = cmd.key
          /\ \E j \in 1..Len(config.doc[i].mds) :
                /\ config.doc[i].mds[j].name = cmd.slug
                /\ cmd.module => config.doc[i].mds[j].module = "true"

\* C17: sync leaves agmd.yml as it found it.  An add that fails while it
\* loads agmd.yml or normalizes the path leaves agmd.yml as it found it and
\* has made no request.  Every other add, from its first step on and however
\* it ends (InvalidSlug, FetchError, EmptyModule, OutOfBounds at the second
\* check of the key, or success), has saved its MappingSet, so agmd.yml holds
\* the new or upgraded entry before the first request is made.
C17_ConfigWrittenFirst ==
    /\ cmd.kind = "sync" => config = hist.config0
    /\ AddFailedEarly => (config = hist.config0 /\ netCalls = <<>>)
    /\ (cmd.kind = "add" /\ ~AddFailedEarly) =>
          /\ config = WriteMappings(mappings)
          /\ HoldsAddedEntry
    /\ (cmd.kind = "add" /\ netCalls # <<>>) => HoldsAddedEntry

\* add --module failed on a module without files, after it had added the
\* entry to agmd.yml
C17_Witness ==
    /\ cmd.kind = "add"
    /\ pc = "idle"
    /\ err.kind = "EmptyModule"
    /\ netCalls # <<>>
    /\ config # hist.config0
    /\ HoldsAddedEntry

----------------------------------------------------------------------------
(* Where a module download writes *)

\* C18: every file a module download writes lies inside the mirror directory
\* <destinationRoot>/.agmd/<safeName>/, whatever entry paths the listing has
C18_WritesInsideMirror ==
    InWalk => \A n \in Written : IsPrefix(dl.dest, hist.effects[n].path)

----------------------------------------------------------------------------
(* Directory names of module mirrors *)

\* a slug download_github_module accepts
ValidSlug(slug) ==
    ParseGithubPath(slug).err = "none" /\ ModuleSlugDirectoryName(slug).err = "none"

\* a slug as it is usually written: owner/repo[/dir...] with nothing around
\* it, no empty segment and no "_"
PlainSlug(slug) ==
    /\ slug = StripSet(Strip(slug), {"/"})
    /\ \A n \in 1..Len(slug) : slug[n] \in (SafeChars \ {"_"}) \cup {"/"}
    /\ \A n \in 1..(Len(slug) - 1) : ~(slug[n] = "/" /\ slug[n + 1] = "/")

NamedBoth == fout.fn = "names" /\ fin[1] # fin[2] /\ ValidSlug(fin[1]) /\ ValidSlug(fin[2])

\* the two mirror directories under one path are apart
MirrorsApart ==
    LET d1 == <<".agmd", fout.names[1].name>>
        d2 == <<".agmd", fout.names[2].name>>
    IN  ~IsPrefix(d1, d2) /\ ~IsPrefix(d2, d1)

\* C19 (as stated): two distinct valid slugs get distinct directory names, so
\* their mirrors under one path are apart
C19_NamesInjective == NamedBoth => MirrorsApart

\* C19 (amended): two distinct valid slugs written plainly (nothing around
\* them, no empty segment, no "_") get distinct directory names, so their
\* mirrors under one path are apart; and whatever the slugs, two mirrors
\* overlap only when the directory names are equal
C19_PlainNamesInjective ==
    /\ (NamedBoth /\ PlainSlug(fin[1]) /\ PlainSlug(fin[2])) => MirrorsApart
    /\ NamedBoth => (MirrorsApart <=> fout.names[1].name # fout.names[2].name)

\* a/a/a and a/aa: the same letters, divided differently
C19_Witness ==
    /\ NamedBoth
    /\ fin[1] = <<"a", "/", "a", "/", "a">>
    /\ fin[2] = <<"a", "/", "a", "a">>
    /\ fout.names = <<[err |-> "none", name |-> "a_a_a"], [err |-> "none", name |-> "a_aa"]>>

----------------------------------------------------------------------------
(* The user's own AGENTS.local.md *)

\* the AGENTS.local.md files that held the user's notes when the command began
AuthoredAtStart ==
    {f \in DOMAIN hist.files0 : Last(f) = "AGENTS.local.md" /\ hist.files0[f] = LocalNotes}

\* C20: init, add and sync leave every AGENTS.local.md the user wrote in its
\* place and with its content
C20_LocalFileKept ==
    cmd.kind \in {"init", "add", "sync"} =>
        \A f \in AuthoredAtStart : f \in DOMAIN files /\ files[f] = hist.files0[f]

=============================================================================
